---- MODULE Spec2Model ----
(***************************************************************************)
(* Pinecone verification engine: checkForContent, processDLCContent and    *)
(* processUpdates, in the two copies the repository carries                *)
(* (src/fileparse.go, the GUI-era copy, and src/unnamed/part_000, the      *)
(* CLI-only copy).  A scan is a sequential program; its position is pc.    *)
(*                                                                         *)
(* Strings on which the code computes (names, display names) are tuples of *)
(* one-character strings, so that len, ToLower, Ext, Contains and slicing  *)
(* are computed and not tabulated.  A path is a tuple of names.            *)
(***************************************************************************)
EXTENDS Integers, Sequences, FiniteSets, TLC

(* ------------------------------ bounds -------------------------------- *)
\* number of entries below the scan root in a scanned tree
MaxNodes == 4

(* ------------------------- program constants -------------------------- *)
\* len(info.Name()) == 8
TitleIDLen == 8
\* name[17:] in the CLI copy of processUpdates
NamePrefixLen == 17

(* ------------------------------ strings ------------------------------- *)
Upper == <<"A","B","C","D","E","F","G","H","I","J","K","L","M",
           "N","O","P","Q","R","S","T","U","V","W","X","Y","Z">>
Lower == <<"a","b","c","d","e","f","g","h","i","j","k","l","m",
           "n","o","p","q","r","s","t","u","v","w","x","y","z">>
\* the characters that occur, in byte order
Ascii == <<" ", "$", ".", "0","1","2","3","4","5","6","7","8","9">>
         \o Upper \o Lower

Chars == {Ascii[i] : i \in 1..Len(Ascii)}

\* the rank of each character in byte order
OrdOf == [c \in Chars |-> CHOOSE i \in 1..Len(Ascii) : Ascii[i] = c]
Ord(c) == OrdOf[c]

\* the lowercase form of each character
LowerOf ==
    [c \in Chars |->
        IF \E i \in 1..Len(Upper) : Upper[i] = c
        THEN Lower[CHOOSE i \in 1..Len(Upper) : Upper[i] = c]
        ELSE c]
ToLowerChar(c) == LowerOf[c]

\* strings.ToLower
ToLower(s) == [i \in 1..Len(s) |-> ToLowerChar(s[i])]

\* strings.Contains
Contains(s, sub) ==
    \E i \in 0..(Len(s) - Len(sub)) : SubSeq(s, i + 1, i + Len(sub)) = sub

\* filepath.Ext: the suffix from the last dot on, empty without a dot
Ext(s) ==
    IF \E i \in 1..Len(s) : s[i] = "."
    THEN LET d == CHOOSE i \in 1..Len(s) :
                     s[i] = "." /\ \A j \in (i+1)..Len(s) : s[j] # "."
         IN SubSeq(s, d, Len(s))
    ELSE <<>>

\* byte-wise string order, as sort.Strings and os.ReadDir use it
RECURSIVE StrLess(_, _)
StrLess(a, b) ==
    IF a = <<>> THEN b # <<>>
    ELSE IF b = <<>> THEN FALSE
    ELSE IF a[1] # b[1] THEN Ord(a[1]) < Ord(b[1])
    ELSE StrLess(Tail(a), Tail(b))

\* the names of a set, sorted by filename
RECURSIVE SortNames(_)
SortNames(S) ==
    IF S = {} THEN <<>>
    ELSE LET m == CHOOSE x \in S : \A y \in S \ {x} : StrLess(x, y)
         IN <<m>> \o SortNames(S \ {m})

(* ------------------------------- names -------------------------------- *)
K1      == <<"4","d","5","3","0","0","6","4">>
K1U     == <<"4","D","5","3","0","0","6","4">>
UNK     == <<"z","z","z","z","z","z","z","z">>
DUMP    == <<"d","u","m","p">>
DollarC == <<"$","c">>
DollarU == <<"$","u">>
Dlc1    == <<"d","l","c","0","0","0","1">>
Dlc2    == <<"d","l","c","0","0","0","2">>
Dlc3    == <<"d","l","c","0","0","0","3">>
Dlc3U   == <<"D","L","C","0","0","0","3">>
Dlc0    == <<"d","l","c","0">>
Dlc000  == <<"d","l","c","0","0","0">>
MetaXbx == <<"c","o","n","t","e","n","t","m","e","t","a",".","x","b","x">>
MetaMix == <<"C","o","n","t","e","n","t","M","e","t","a",".","x","b","x">>
Readme  == <<"r","e","a","d","m","e",".","t","x","t">>
SaveBin == <<"s","a","v","e",".","b","i","n">>
AXbe    == <<"a",".","x","b","e">>
BXbe    == <<"b",".","x","b","e">>
SubXbe  == <<"s","u","b",".","x","b","e">>
NotesTxt == <<"n",".","t","x","t">>
DotXbe  == <<".","x","b","e">>

Update10 == <<"U","p","d","a","t","e"," ","1",".","0">>
LongName == <<"T","i","t","l","e"," ","U","p","d","a","t","e"," ","0","0","1"," ",
              "L","i","v","e">>
ArchiveSet7 == <<"A","r","c","h","i","v","e","S","e","t","7">>

(* ------------------------------ catalog ------------------------------- *)
\* titles.Titles: TitleID -> TitleData.  Archived and TitleUpdatesKnown are
\* lists of maps, as the loops over them show.
titles ==
    K1 :> [ TitleName  |-> "Game A",
            ContentIDs |-> <<Dlc1, Dlc2, Dlc3, Dlc0>>,
            Archived   |-> << (Dlc1 :> ArchiveSet7), (Dlc2 :> <<>>) >>,
            TitleUpdatesKnown |-> << ("h1" :> Update10), ("h2" :> LongName) >> ]

\* what a file's bytes can hash to; "h3" is in no catalog entry
Digests == {"h1", "h2", "h3"}

(* ---------------------------- scanned trees --------------------------- *)
\* A tree maps each path below the scan root (<<>> is the root itself) to
\* "dir" or "file".  ChildOptions lists the entries a directory may hold.
TopNames    == {K1, K1U, UNK, DUMP}
ContentDirs == {Dlc1, Dlc2, Dlc3U, Dlc000}

Last(p) == p[Len(p)]
Parent(p) == SubSeq(p, 1, Len(p) - 1)

ChildOptions(p) ==
    IF p = <<>>
      THEN {<<n, "dir">> : n \in TopNames \cup {DollarC, DollarU}}
    ELSE IF Last(p) \in TopNames
      THEN {<<DollarC, "dir">>, <<DollarU, "dir">>}
           \cup (IF Len(p) = 1 /\ Last(p) \in {UNK, DUMP}
                 THEN {<<K1, "dir">>} ELSE {})
    ELSE IF Last(p) = DollarC
      THEN {<<n, "dir">> : n \in ContentDirs} \cup {<<SaveBin, "file">>}
    ELSE IF Last(p) \in ContentDirs
      THEN {<<MetaMix, "file">>, <<MetaXbx, "dir">>, <<Readme, "file">>}
    ELSE IF Last(p) = DollarU
      THEN {<<AXbe, "file">>, <<BXbe, "file">>, <<NotesTxt, "file">>,
            <<SubXbe, "dir">>}
    ELSE {}

Extensions(t) ==
    { t @@ ((p \o <<o[1]>>) :> o[2]) :
        <<p, o>> \in { <<q, c>> \in (DOMAIN t) \X
                          UNION {ChildOptions(q) : q \in DOMAIN t} :
                          /\ t[q] = "dir"
                          /\ c \in ChildOptions(q)
                          /\ (q \o <<c[1]>>) \notin DOMAIN t } }

RECURSIVE Grow(_, _)
Grow(S, k) ==
    IF k = 0 THEN S
    ELSE S \cup Grow(UNION {Extensions(t) : t \in S}, k - 1)

RootOnly == (<<>> :> "dir")
\* the empty tree: the scan root does not exist
NoTree == [p \in {} |-> "dir"]
Trees == Grow({RootOnly}, MaxNodes) \cup {NoTree}

IsDir(fs, p) == p \in DOMAIN fs /\ fs[p] = "dir"
\* the entries of directory p
Entries(fs, p) ==
    { Last(q) : q \in { r \in DOMAIN fs : Len(r) = Len(p) + 1 /\ Parent(r) = p } }
\* os.ReadDir / readDirNames when they succeed: sorted by filename
ReadDir(fs, p) == SortNames(Entries(fs, p))

(* ------------------------------- state -------------------------------- *)
VARIABLES
    fs,          \* the scanned tree (read-only during a scan)
    directory,   \* the scan root as given: its name, and whether the string
                 \* is in filepath.Clean form ("dump", not "dump/" or "./dump")
    build,       \* which copy of the engine runs
    guiEnabled,  \* the process-wide GUI toggle (fileparse.go only)
    pc,          \* position of the scan
    pending,     \* paths filepath.Walk has still to hand to the callback
    loc,         \* locals of the callback and of the classifier it is in
    events,      \* what was reported, in order
    trace,       \* calls made, in order (walkFn, classifiers, hasher)
    result       \* what checkForContent returned

vars == <<fs, directory, build, guiEnabled, pc, pending, loc, events, trace, result>>
inputs == <<fs, directory, build, guiEnabled>>

NoPath == <<"-">>
NoName == <<>>
NoLoc  == [path |-> <<>>, ok |-> FALSE, titleID |-> NoName, list |-> <<>>,
           i |-> 0, knownUpdateFound |-> FALSE]

\* an event as the sink receives it (kind .. detail), with two fields kept
\* for the record: the entry it is about, and how many calls had been made
\* when it was emitted
Ev(kind, titleID, titleName, path, detail, subject, at) ==
    [kind |-> kind, titleID |-> titleID, titleName |-> titleName,
     path |-> path, detail |-> detail, subject |-> subject, at |-> Len(at)]
\* a call, with what it returned where that is an input of the scan
Call(op, path, out) == [op |-> op, path |-> path, out |-> out]
Listed(read) == IF read THEN "ok" ELSE "err"

Running    == [kind |-> "running", path |-> <<>>]
ReturnNil  == [kind |-> "nil", path |-> <<>>]
ListError(p) == [kind |-> "DirectoryListError", path |-> p]
MissingRoot == [kind |-> "MissingRoot", path |-> <<>>]
LstatError == [kind |-> "LstatError", path |-> <<>>]
Panic      == [kind |-> "panic", path |-> <<>>]

(* ------------------------------- helpers ------------------------------ *)
\* info.Name() of the entry at path p
NameOf(p) == IF p = <<>> THEN directory.name ELSE Last(p)

\* the path string the code holds for p: filepath.Join(directory, ...)
PathStr(p) == <<directory.name>> \o p

\* strings.TrimPrefix(s, directory+"/"): joined paths are cleaned, so the
\* prefix is found only when the root was given in clean form
TrimPrefix(s) ==
    IF /\ directory.clean
       /\ Len(s) > 1
       /\ s[1] = directory.name
    THEN Tail(s) ELSE s

\* contains(slice, val)
contains(slice, val) == \E k \in 1..Len(slice) : slice[k] = val

\* slip: the existence check is left out
RootAssumedPresent == FALSE

\* os.Stat(directory) reports that the root does not exist
RootNotFound == <<>> \notin DOMAIN fs

\* the listing the callback is handed for p comes with an error
WalkErr(ok) == ~ok

\* slip: the rule is applied below the scan root only
TitleShapedBelowRoot(p) ==
    p # <<>> /\ fs[p] = "dir" /\ Len(NameOf(p)) = TitleIDLen

\* len(info.Name()) == 8 on a directory
TitleShaped(p) == fs[p] = "dir" /\ Len(NameOf(p)) = TitleIDLen

\* slip: the catalog is asked for the name as it is spelled
TitleIDAsSpelled(p) == NameOf(p)

\* titleID := strings.ToLower(info.Name())
TitleIDOf(p) == ToLower(NameOf(p))

\* slip: the walk goes on below an unrecognized directory
SkipDirNever(ok) == FALSE

\* the unrecognized directory is cut from the walk (filepath.SkipDir)
SkipDir(ok) == ~ok

\* the paths Walk goes on to after the callback returned nil for p
Children(p) == [k \in 1..Len(ReadDir(fs, p)) |-> p \o <<ReadDir(fs, p)[k]>>]

(* ----------------------------- checkForContent ------------------------ *)
Init ==
    /\ fs \in Trees
    /\ directory \in [name : {DUMP, UNK}, clean : BOOLEAN]
    /\ build \in {"fileparse.go", "part_000"}
    /\ guiEnabled \in (IF build = "fileparse.go" THEN BOOLEAN ELSE {FALSE})
    /\ pc = "start"
    /\ pending = <<>>
    /\ loc = NoLoc
    /\ events = <<>>
    /\ trace = <<>>
    /\ result = Running

\* os.Stat on the root, then the start of filepath.Walk
CheckRoot ==
    /\ pc = "start"
    /\ IF RootNotFound
       THEN /\ events' = Append(events,
                  Ev("MissingRoot", NoName, "", <<directory.name>>, NoName, <<>>, trace))
            /\ result' = MissingRoot
            /\ pc' = "done"
            /\ pending' = pending
       ELSE /\ pending' = << <<>> >>
            /\ pc' = "walk"
            /\ UNCHANGED <<events, result>>
    /\ UNCHANGED <<inputs, loc, trace>>

\* the walk callback, from its entry to the end of the $c block; Walk reads
\* the names of a directory before it calls the callback for it.  An entry
\* that a listing returned can be lstat-ed; a listing itself may fail.
WalkFn ==
    /\ pc = "walk"
    /\ pending # <<>>
    /\ LET p == Head(pending)
           c == p \o <<DollarC>>
       IN
       IF p \notin DOMAIN fs
       THEN \* os.Lstat failed: the callback is handed the error and returns it
            /\ trace' = Append(trace, Call("walkFn", p, "err"))
            /\ result' = LstatError
            /\ pc' = "done"
            /\ UNCHANGED <<pending, loc, events>>
       ELSE IF fs[p] # "dir"
       THEN \* not a directory: the callback returns nil
            /\ trace' = Append(trace, Call("walkFn", p, ""))
            /\ pending' = Tail(pending)
            /\ UNCHANGED <<pc, loc, events, result>>
       ELSE \E listed \in BOOLEAN :
            LET t1 == trace \o <<Call("readDirNames", p, Listed(listed)),
                                 Call("walkFn", p, "")>>
            IN
            IF WalkErr(listed)
            THEN \* if err != nil { return err }
                 /\ trace' = t1
                 /\ result' = ListError(p)
                 /\ pc' = "done"
                 /\ UNCHANGED <<pending, loc, events>>
            ELSE IF ~TitleShaped(p)
            THEN /\ trace' = t1
                 /\ pending' = Children(p) \o Tail(pending)
                 /\ UNCHANGED <<pc, loc, events, result>>
            ELSE
              LET titleID == TitleIDOf(p)
                  ok == titleID \in DOMAIN titles
                  hdr == IF ok
                         THEN <<Ev("TitleHeader", titleID, titles[titleID].TitleName,
                                   NoPath, NoName, p, t1)>>
                         ELSE <<>>
                  l0 == [path |-> p, ok |-> ok, titleID |-> titleID,
                         list |-> <<>>, i |-> 0, knownUpdateFound |-> FALSE]
              IN
              IF IsDir(fs, c)
              THEN IF ok
                   THEN \E read \in BOOLEAN :   \* os.ReadDir(subDirDLC)
                        /\ trace' = t1 \o <<Call("processDLCContent", c, ""),
                                            Call("ReadDir", c, Listed(read))>>
                        /\ events' = events \o hdr
                        /\ IF read
                           THEN /\ loc' = [l0 EXCEPT !.list = ReadDir(fs, c), !.i = 1]
                                /\ pc' = "dlc"
                                /\ UNCHANGED result
                           ELSE /\ result' = ListError(c)
                                /\ pc' = "done"
                                /\ loc' = l0
                        /\ UNCHANGED pending
                   ELSE /\ trace' = t1
                        /\ events' = events \o hdr \o
                              <<Ev("UnrecognizedDLC", NoName, "", PathStr(c), NoName,
                                   c, t1)>>
                        /\ loc' = l0
                        /\ pc' = "statU"
                        /\ UNCHANGED <<pending, result>>
              ELSE /\ trace' = t1
                   /\ events' = events \o hdr
                   /\ loc' = l0
                   /\ pc' = "statU"
                   /\ UNCHANGED <<pending, result>>
    /\ UNCHANGED inputs

(* ---------------------------- processDLCContent ---------------------- *)
\* slip: a directory of that name qualifies too
hasContentMetaXbxAnyKind(d) ==
    \E n \in Entries(fs, d) : Contains(ToLower(n), MetaXbx)

\* an entry named like "contentmeta.xbx" that is not a directory
hasContentMetaXbx(d) ==
    \E n \in Entries(fs, d) :
        /\ Contains(ToLower(n), MetaXbx)
        /\ ~IsDir(fs, d \o <<n>>)

\* contentID := strings.ToLower(subContent.Name())
ContentIDOf(n) == ToLower(n)

\* the loops over titleData.Archived: the first non-empty name mapped to
\* contentID, the empty string when there is none
RECURSIVE ArchivedName(_, _)
ArchivedName(archived, contentID) ==
    IF archived = <<>> THEN <<>>
    ELSE IF contentID \in DOMAIN Head(archived) /\ Head(archived)[contentID] # <<>>
         THEN Head(archived)[contentID]
         ELSE ArchivedName(Tail(archived), contentID)

\* slip: the error of the listing is dropped and the loop goes on
SubDirErrIgnored(read) == FALSE

\* a failed listing of a content subdirectory ends the classifier
SubDirErr(read) == ~read

\* one turn of "for _, subContent := range subContents", or its end
DLCStep ==
    /\ pc = "dlc"
    /\ IF loc.i > Len(loc.list)
       THEN \* return nil
            /\ pc' = "statU"
            /\ UNCHANGED <<loc, events, trace, result>>
       ELSE
         LET n == loc.list[loc.i]
             subContentPath == loc.path \o <<DollarC, n>>
             titleData == titles[loc.titleID]
             contentID == ContentIDOf(n)
             archivedName == ArchivedName(titleData.Archived, contentID)
             continue == /\ loc' = [loc EXCEPT !.i = loc.i + 1]
                         /\ UNCHANGED <<pc, result>>
         IN
         IF ~IsDir(fs, subContentPath)
         THEN continue /\ UNCHANGED <<events, trace>>
         ELSE \E read \in BOOLEAN :      \* os.ReadDir(subContentPath)
              /\ trace' = Append(trace, Call("ReadDir", subContentPath, Listed(read)))
              /\ IF SubDirErr(read)
                 THEN /\ result' = ListError(subContentPath)
                      /\ pc' = "done"
                      /\ UNCHANGED <<loc, events>>
                 ELSE IF ~hasContentMetaXbx(subContentPath)
                 THEN continue /\ UNCHANGED events
                 ELSE IF ~contains(titleData.ContentIDs, contentID)
                 THEN /\ continue
                      /\ events' = Append(events,
                            Ev("ContentUnknown", loc.titleID, titleData.TitleName,
                               PathStr(subContentPath), NoName, subContentPath, trace'))
                 ELSE IF archivedName # <<>>
                 THEN /\ continue
                      /\ events' = Append(events,
                            Ev("ContentArchived", loc.titleID, titleData.TitleName,
                               NoPath, archivedName, subContentPath, trace'))
                 ELSE /\ continue
                      /\ events' = Append(events,
                            Ev("ContentUnarchived", loc.titleID, titleData.TitleName,
                               TrimPrefix(PathStr(subContentPath)), NoName,
                               subContentPath, trace'))
    /\ UNCHANGED <<inputs, pending>>

\* the $u block of the callback, up to the listing in processUpdates
StatUpdates ==
    /\ pc = "statU"
    /\ LET u == loc.path \o <<DollarU>> IN
       IF IsDir(fs, u)
       THEN IF loc.ok
            THEN \E read \in BOOLEAN :       \* os.ReadDir(subDirUpdates)
                 /\ trace' = trace \o <<Call("processUpdates", u, ""),
                                         Call("ReadDir", u, Listed(read))>>
                 /\ IF read
                    THEN /\ loc' = [loc EXCEPT !.list = ReadDir(fs, u), !.i = 1,
                                               !.knownUpdateFound = FALSE]
                         /\ pc' = "upd"
                         /\ UNCHANGED result
                    ELSE /\ result' = ListError(u)
                         /\ pc' = "done"
                         /\ UNCHANGED loc
                 /\ UNCHANGED events
            ELSE /\ events' = Append(events,
                       Ev("UnrecognizedUpdates", NoName, "", PathStr(u), NoName, u, trace))
                 /\ pc' = "ret"
                 /\ UNCHANGED <<loc, trace, result>>
       ELSE /\ pc' = "ret"
            /\ UNCHANGED <<loc, events, trace, result>>
    /\ UNCHANGED <<inputs, pending>>

(* ------------------------------ processUpdates ------------------------ *)
\* what getSHA1Hash can return for the entry at path f: a digest of the
\* bytes read, or an error; reading a directory always fails
HashOutcomes(f) == IF IsDir(fs, f) THEN {"err"} ELSE Digests \cup {"err"}

\* the loops over titleData.TitleUpdatesKnown for one file.  found is
\* knownUpdateFound on entry; the result is the index of the map that
\* matched (0: none) and knownUpdateFound on exit
RECURSIVE LookupUpdate(_, _, _, _)
LookupUpdate(known, k, fileHash, found) ==
    IF k > Len(known) THEN [match |-> 0, found |-> found]
    ELSE IF fileHash \in DOMAIN known[k] THEN [match |-> k, found |-> TRUE]
    ELSE IF found THEN [match |-> 0, found |-> found]
    ELSE LookupUpdate(known, k + 1, fileHash, found)

\* the name as the build prints it; <<"panic">> when the slice is out of range
SliceFails(name) == build = "part_000" /\ Len(name) < NamePrefixLen
ShownName(name) ==
    IF build = "part_000"
    THEN SubSeq(name, NamePrefixLen + 1, Len(name))
    ELSE name

\* how often the file path is trimmed before it is printed
ShownPath(s) ==
    IF build = "fileparse.go" /\ guiEnabled
    THEN TrimPrefix(TrimPrefix(s))
    ELSE TrimPrefix(s)

\* the CLI copy leaves the file loop once a known update was found
BreaksAfterMatch == build = "part_000"

\* one turn of "for _, f := range files", or its end
UpdStep ==
    /\ pc = "upd"
    /\ IF loc.i > Len(loc.list)
       THEN \* return nil
            /\ pc' = "ret"
            /\ UNCHANGED <<loc, events, trace, result>>
       ELSE
         LET n == loc.list[loc.i]
             filePath == loc.path \o <<DollarU, n>>
             titleData == titles[loc.titleID]
         IN
         IF Ext(n) # DotXbe
         THEN /\ loc' = [loc EXCEPT !.i = loc.i + 1]
              /\ UNCHANGED <<pc, events, trace, result>>
         ELSE \E fileHash \in HashOutcomes(filePath) :
              /\ trace' = Append(trace, Call("getSHA1Hash", filePath, fileHash))
              /\ IF fileHash = "err"
                 THEN /\ events' = Append(events,
                            Ev("HashError", NoName, "", NoPath, n, filePath, trace'))
                      /\ loc' = [loc EXCEPT !.i = loc.i + 1]
                      /\ UNCHANGED <<pc, result>>
                 ELSE
                   LET r == LookupUpdate(titleData.TitleUpdatesKnown, 1, fileHash,
                                         loc.knownUpdateFound)
                       name == titleData.TitleUpdatesKnown[r.match][fileHash]
                   IN
                   IF r.match # 0 /\ SliceFails(name)
                   THEN \* slice bounds out of range
                        /\ result' = Panic
                        /\ pc' = "done"
                        /\ UNCHANGED <<loc, events>>
                   ELSE
                     /\ events' = events \o
                          (IF r.match # 0
                           THEN <<Ev("UpdateKnown", loc.titleID, titleData.TitleName,
                                     ShownPath(PathStr(filePath)),
                                     <<ShownName(name), fileHash>>, filePath, trace')>>
                           ELSE IF ~r.found
                           THEN <<Ev("UpdateUnknown", loc.titleID, titleData.TitleName,
                                     ShownPath(PathStr(filePath)),
                                     <<NoName, fileHash>>, filePath, trace')>>
                           ELSE <<>>)
                     /\ IF r.found /\ BreaksAfterMatch
                        THEN pc' = "ret" /\ loc' = [loc EXCEPT !.knownUpdateFound = TRUE]
                        ELSE /\ loc' = [loc EXCEPT !.i = loc.i + 1,
                                                   !.knownUpdateFound = r.found]
                             /\ pc' = pc
                     /\ UNCHANGED result
    /\ UNCHANGED <<inputs, pending>>

(* --------------------------- end of the callback ---------------------- *)
\* "if !ok { return filepath.SkipDir }; return nil", and what Walk does next
WalkRet ==
    /\ pc = "ret"
    /\ pending' = IF SkipDir(loc.ok)
                  THEN Tail(pending)
                  ELSE Children(loc.path) \o Tail(pending)
    /\ pc' = "walk"
    /\ UNCHANGED <<inputs, loc, events, trace, result>>

\* Walk has nothing left: checkForContent returns nil
WalkDone ==
    /\ pc = "walk"
    /\ pending = <<>>
    /\ result' = ReturnNil
    /\ pc' = "done"
    /\ UNCHANGED <<inputs, pending, loc, events, trace>>

Next ==
    \/ CheckRoot
    \/ WalkFn
    \/ DLCStep
    \/ StatUpdates
    \/ UpdStep
    \/ WalkRet
    \/ WalkDone

Spec == Init /\ [][Next]_vars

TypeOK ==
    /\ pc \in {"start", "walk", "dlc", "statU", "upd", "ret", "done"}
    /\ (pc = "done") = (result.kind # "running")

(* ======================= properties of the scan ======================= *)
UpdateKinds  == {"UpdateKnown", "UpdateUnknown", "HashError"}
ContentKinds == {"ContentUnknown", "ContentArchived", "ContentUnarchived"}
UnrecognizedKinds == {"UnrecognizedDLC", "UnrecognizedUpdates"}

\* q lies strictly below p
IsUnder(p, q) == Len(q) > Len(p) /\ SubSeq(q, 1, Len(p)) = p

\* the events of the given kinds about the entry at path s
EventsAbout(s, kinds) ==
    {i \in 1..Len(events) : events[i].subject = s /\ events[i].kind \in kinds}

\* the callback was invoked for p / is still running for p
Visited(p) == \E i \in 1..Len(trace) : trace[i].op = "walkFn" /\ trace[i].path = p
InCallback(p) == pc \in {"dlc", "statU", "upd", "ret"} /\ loc.path = p

\* a title-shaped directory whose lowercase name the catalog has / has not
InCatalog(p) ==
    /\ IsDir(fs, p)
    /\ Len(NameOf(p)) = 8
    /\ ToLower(NameOf(p)) \in DOMAIN titles
Unrecognized(p) ==
    /\ IsDir(fs, p)
    /\ Len(NameOf(p)) = 8
    /\ ToLower(NameOf(p)) \notin DOMAIN titles

(* C1: when processUpdates has returned for a known title, every .xbe file
   of its $u has exactly one event among UpdateKnown, UpdateUnknown and
   HashError, wherever the file stands in the listing. *)
C1_OneEventPerXbe ==
    (pc = "ret" /\ loc.ok /\ IsDir(fs, loc.path \o <<DollarU>>)) =>
        \A n \in Entries(fs, loc.path \o <<DollarU>>) :
            LET f == loc.path \o <<DollarU, n>> IN
            (Ext(n) = DotXbe /\ fs[f] = "file") =>
                Cardinality(EventsAbout(f, UpdateKinds)) = 1

(* C2: nothing below an unrecognized 8-character directory is visited,
   listed, classified or hashed, and the only events about anything below
   it are the "unrecognized" ones for its $c and $u. *)
NothingBeneath(p) ==
    /\ \A i \in 1..Len(trace) : ~IsUnder(p, trace[i].path)
    /\ \A i \in 1..Len(events) :
          IsUnder(p, events[i].subject) =>
              \/ events[i] = Ev("UnrecognizedDLC", NoName, "",
                                PathStr(p \o <<DollarC>>), NoName,
                                p \o <<DollarC>>, SubSeq(trace, 1, events[i].at))
              \/ events[i] = Ev("UnrecognizedUpdates", NoName, "",
                                PathStr(p \o <<DollarU>>), NoName,
                                p \o <<DollarU>>, SubSeq(trace, 1, events[i].at))

\* one "unrecognized" event for each of the existing $c and $u of p
OnePerSubdir(p) ==
    /\ Cardinality(EventsAbout(p \o <<DollarC>>, {"UnrecognizedDLC"})) =
          (IF IsDir(fs, p \o <<DollarC>>) THEN 1 ELSE 0)
    /\ Cardinality(EventsAbout(p \o <<DollarU>>, {"UnrecognizedUpdates"})) =
          (IF IsDir(fs, p \o <<DollarU>>) THEN 1 ELSE 0)

\* C2 as stated: for every visited unrecognized directory
C2_AsStated ==
    \A p \in DOMAIN fs :
        (Unrecognized(p) /\ Visited(p) /\ ~InCallback(p)) =>
            OnePerSubdir(p) /\ NothingBeneath(p)

\* the listing Walk made of p before the callback succeeded
ListedOk(p) == \E i \in 1..Len(trace) : trace[i] = Call("readDirNames", p, "ok")

(* C2 (amended): for every visited unrecognized 8-character directory,
   nothing beneath it is visited, classified or hashed; and when the
   listing of the directory itself succeeded, exactly one "unrecognized"
   event is emitted for each of its existing $c and $u. *)
C2_Unrecognized ==
    \A p \in DOMAIN fs :
        (Unrecognized(p) /\ Visited(p)) =>
            /\ NothingBeneath(p)
            /\ (ListedOk(p) /\ ~InCallback(p)) => OnePerSubdir(p)
            /\ ~ListedOk(p) => EventsAbout(p \o <<DollarC>>, UnrecognizedKinds)
                                \cup EventsAbout(p \o <<DollarU>>, UnrecognizedKinds) = {}

C2_Witness ==
    \E p \in DOMAIN fs :
        /\ Unrecognized(p) /\ Visited(p) /\ ~InCallback(p) /\ ListedOk(p)
        /\ IsDir(fs, p \o <<DollarC>>)
        /\ Entries(fs, p \o <<DollarU>>) # {}
        /\ Len(events) = 2

(* C3: a content event is ContentUnknown iff the lowercase directory name
   equals no element of ContentIDs; otherwise it is ContentArchived, with
   the mapped name, iff the name is a key of Archived, whatever the name
   mapped to it; otherwise ContentUnarchived. *)
C3_ContentClassification ==
    \A i \in 1..Len(events) :
        events[i].kind \in ContentKinds =>
            LET e == events[i]
                cid == ToLower(Last(e.subject))
                td == titles[e.titleID]
                known == \E k \in 1..Len(td.ContentIDs) : td.ContentIDs[k] = cid
                maps == {m \in 1..Len(td.Archived) : cid \in DOMAIN td.Archived[m]}
            IN
            /\ (e.kind = "ContentUnknown") <=> ~known
            /\ known => ((e.kind = "ContentArchived") <=> (maps # {}))
            /\ (e.kind = "ContentArchived") =>
                  \E m \in maps : e.detail = td.Archived[m][cid]

(* C4: every event that carries a path (ContentUnknown, ContentUnarchived,
   UpdateKnown, UpdateUnknown) carries the path relative to the scan root. *)
C4_RelativePaths ==
    \A i \in 1..Len(events) :
        events[i].kind \in {"ContentUnknown", "ContentUnarchived",
                            "UpdateKnown", "UpdateUnknown"} =>
            events[i].path = events[i].subject

(* C5: every hashed file of a known title's $u whose digest is a key of
   TitleUpdatesKnown has an UpdateKnown event with the display name mapped
   to the digest, unmodified, and the digest; the classifier does not fail. *)
C5_KnownUpdateNamed ==
    /\ result # Panic
    /\ \A j \in 1..Len(trace) :
          LET c == trace[j]
              td == titles[ToLower(NameOf(SubSeq(c.path, 1, Len(c.path) - 2)))]
              maps == {m \in 1..Len(td.TitleUpdatesKnown) :
                          c.out \in DOMAIN td.TitleUpdatesKnown[m]}
          IN
          (c.op = "getSHA1Hash" /\ c.out # "err" /\ maps # {}) =>
              \E i \in EventsAbout(c.path, {"UpdateKnown"}) :
                  \E m \in maps :
                      events[i].detail = <<td.TitleUpdatesKnown[m][c.out], c.out>>

(* C6: an entry of $u that is a subdirectory, or whose extension is not
   .xbe, is never hashed and has no event. *)
C6_IgnoresOtherEntries ==
    \A p \in DOMAIN fs :
        (/\ Len(p) >= 2
         /\ p[Len(p) - 1] = DollarU
         /\ (fs[p] = "dir" \/ Ext(Last(p)) # DotXbe)) =>
            /\ \A j \in 1..Len(trace) :
                  ~(trace[j].op = "getSHA1Hash" /\ trace[j].path = p)
            /\ \A i \in 1..Len(events) : events[i].subject # p

(* C7: a subdirectory of a known title's $c qualifies when it has a
   non-directory entry whose name contains "contentmeta.xbx", letter case
   aside. *)
Qualifies(d) ==
    /\ IsDir(fs, d)
    /\ \E n \in Entries(fs, d) :
          fs[d \o <<n>>] = "file" /\ Contains(ToLower(n), MetaXbx)

\* the Content Classifier was called on c and is no longer running
ClassifierCalled(c) ==
    \E j \in 1..Len(trace) : trace[j] = Call("processDLCContent", c, "")
ClassifierDone(c) ==
    ClassifierCalled(c) /\ ~(pc = "dlc" /\ loc.path \o <<DollarC>> = c)
\* ... and no listing it made failed
ClassifierReturnedNil(c) ==
    /\ ClassifierDone(c)
    /\ \A j \in 1..Len(trace) :
          (trace[j].op = "ReadDir" /\ trace[j].out = "err") =>
              ~(trace[j].path = c \/ Parent(trace[j].path) = c)

ContentEventCount(c, n) == Cardinality(EventsAbout(c \o <<n>>, ContentKinds))

\* C7 as stated: whenever the classifier has run on $c
C7_AsStated ==
    \A c \in DOMAIN fs :
        ClassifierDone(c) =>
            \A n \in Entries(fs, c) :
                ContentEventCount(c, n) = (IF Qualifies(c \o <<n>>) THEN 1 ELSE 0)

(* C7 (amended): when the Content Classifier returns without a listing
   error, it has emitted exactly one event for each qualifying subdirectory
   of $c and none for any other entry; when a listing fails it has emitted
   at most one event for a qualifying subdirectory and none for any other
   entry. *)
C7_OneEventPerQualifying ==
    \A c \in DOMAIN fs :
        (c # <<>> /\ Last(c) = DollarC /\ ClassifierCalled(c)) =>
            \A n \in Entries(fs, c) :
                /\ ContentEventCount(c, n) <= (IF Qualifies(c \o <<n>>) THEN 1 ELSE 0)
                /\ ClassifierReturnedNil(c) =>
                      ContentEventCount(c, n) = (IF Qualifies(c \o <<n>>) THEN 1 ELSE 0)

C7_Witness ==
    \E c \in DOMAIN fs :
        /\ ClassifierReturnedNil(c)
        /\ \E n \in Entries(fs, c) :
              Qualifies(c \o <<n>>) /\ ContentEventCount(c, n) = 1

(* C8: once a listing has failed, checkForContent has returned that error,
   no event was emitted after the failure, and no call was made after it
   except the callback that is handed the error for the same directory. *)
C8_ListErrorAborts ==
    \A j \in 1..Len(trace) :
        (trace[j].op \in {"readDirNames", "ReadDir"} /\ trace[j].out = "err") =>
            /\ pc = "done"
            /\ result = ListError(trace[j].path)
            /\ \A i \in 1..Len(events) : events[i].at < j
            /\ \A k \in (j + 1)..Len(trace) :
                  /\ trace[j].op = "readDirNames"
                  /\ trace[k] = Call("walkFn", trace[j].path, "")

C8_Witness ==
    /\ result.kind = "DirectoryListError"
    /\ Len(result.path) = 3
    /\ result.path[2] = DollarC
    /\ events # <<>>

(* C9: when the scan root does not exist nothing is visited, listed,
   classified or hashed, and checkForContent returns MissingRoot after
   reporting the missing root once. *)
C9_MissingRoot ==
    (<<>> \notin DOMAIN fs) =>
        /\ trace = <<>>
        /\ pending = <<>>
        /\ pc \in {"start", "done"}
        /\ pc = "start" => events = <<>>
        /\ pc = "done" =>
              /\ result = MissingRoot
              /\ Len(events) = 1
              /\ events[1].kind = "MissingRoot"

C9_Witness == (<<>> \notin DOMAIN fs) /\ pc = "done"

(* C10: a title-shaped directory is looked up under the lowercase form of
   its name: it gets a title header iff the lowercase name is in the
   catalog, and its header and every classification event below it carry
   the lowercase TitleID and the TitleName of that catalog entry, however
   the name is spelled. *)
TitleDirOf(e) ==
    IF e.kind = "TitleHeader" THEN e.subject
    ELSE SubSeq(e.subject, 1, Len(e.subject) - 2)

NoListingFailed ==
    \A j \in 1..Len(trace) :
        trace[j].op \in {"readDirNames", "ReadDir"} => trace[j].out = "ok"

\* no directory above p is an unrecognized 8-character directory
NotCutOff(p) == \A k \in 0..(Len(p) - 1) : ~Unrecognized(SubSeq(p, 1, k))

CallsOf(op, p) == {j \in 1..Len(trace) : trace[j].op = op /\ trace[j].path = p}

ReachedOnce(p) ==
    /\ Cardinality(CallsOf("walkFn", p)) = 1
    /\ Cardinality(EventsAbout(p, {"TitleHeader"})) = 1
    /\ Cardinality(CallsOf("processDLCContent", p \o <<DollarC>>)) =
          (IF IsDir(fs, p \o <<DollarC>>) THEN 1 ELSE 0)
    /\ Cardinality(CallsOf("processUpdates", p \o <<DollarU>>)) =
          (IF IsDir(fs, p \o <<DollarU>>) THEN 1 ELSE 0)

C11_ReachesEveryTitle ==
    (pc = "done" /\ <<>> \in DOMAIN fs /\ NoListingFailed) =>
        /\ result = ReturnNil
        /\ \A p \in DOMAIN fs : (InCatalog(p) /\ NotCutOff(p)) => ReachedOnce(p)

(* C12: the 8-character rule applies to the scan root itself.  When the
   root exists and is unrecognized, only the root is listed and handed to
   the callback, nothing is classified or hashed, and the only events are
   the "unrecognized" ones for root/$c and root/$u, at most one each. *)
OnlyTheRoot ==
    /\ \A j \in 1..Len(trace) :
          trace[j].path = <<>> /\ trace[j].op \in {"readDirNames", "walkFn"}
    /\ Cardinality(CallsOf("walkFn", <<>>)) <= 1
    /\ \A i \in 1..Len(events) :
          \/ events[i].kind = "UnrecognizedDLC" /\ events[i].subject = <<DollarC>>
          \/ events[i].kind = "UnrecognizedUpdates" /\ events[i].subject = <<DollarU>>
    /\ Cardinality(EventsAbout(<<DollarC>>, {"UnrecognizedDLC"})) <= 1
    /\ Cardinality(EventsAbout(<<DollarU>>, {"UnrecognizedUpdates"})) <= 1

\* C12 as stated: ... and checkForContent returns without error
C12_AsStated ==
    Unrecognized(<<>>) =>
        /\ OnlyTheRoot
        /\ pc = "done" => result = ReturnNil

(* C12 (amended): as above, and checkForContent returns nil, with one event
   for each existing root/$c and root/$u, when the listing of the root
   succeeded; when that listing failed it returns the listing error and has
   emitted nothing. *)
C12_RootRule ==
    Unrecognized(<<>>) =>
        /\ OnlyTheRoot
        /\ pc = "done" =>
              IF ListedOk(<<>>)
              THEN result = ReturnNil /\ OnePerSubdir(<<>>)
              ELSE result = ListError(<<>>) /\ events = <<>>

C12_Witness ==
    /\ Unrecognized(<<>>)
    /\ pc = "done"
    /\ result = ReturnNil
    /\ IsDir(fs, <<DollarC>>)
    /\ <<K1, DollarU, AXbe>> \in DOMAIN fs
    /\ Len(events) = 1

====
